---- MODULE Spec2Model ----
(***************************************************************************)
(* Duration.js: a duration parsed from a compact string ("1y2mo3d4h") or   *)
(* given as a record, kept as a Temporal.Duration and added to,            *)
(* subtracted from and rendered relative to an optional anchor date.       *)
(*                                                                         *)
(* Two classes are modelled: the current one (src/unnamed/part_001, whose  *)
(* constructor, add and sub re-balance the value) and the earlier one      *)
(* (src/duration.ts, which keeps what Temporal returns).  The variable     *)
(* impl says which of the two the object is.                               *)
(* Spec is the life of one object: its construction and the calls of add,  *)
(* sub, toString and toDiscordTimestamp made on it while the clock runs;   *)
(* SpecScan is one call of parseString, its loop taken one iteration at a  *)
(* time.  endDate, which reads the value and changes nothing, is left out. *)
(*                                                                         *)
(* Strings are sequences of one-character strings; the two micro signs of  *)
(* the unit table are written "U+00B5" and "U+03BC".  String indices are   *)
(* JavaScript's (from 0): the character at index i of s is s[i + 1].       *)
(***************************************************************************)
EXTENDS Integers, Sequences, FiniteSets, TLC

VARIABLES
    impl,        \* "none" before a successful construction, else the class
    duration,    \* this.duration: the ten fields of the Temporal.Duration
    now,         \* the system clock, [day, sec]: epoch day and second of day
    calls,       \* number of method calls made on the object
    last,        \* the last call: its arguments, outcome and return value
    text,        \* scan of parseString: its argument
    lastIndex,   \* scan of parseString: unitRegex.lastIndex
    durations,   \* scan of parseString: the object literal being filled
    iterations,  \* scan of parseString: loop iterations made
    result,      \* scan of parseString: the error thrown, the value returned
    pc           \* scan of parseString: "test", "loop", "done", "thrown",
                 \* and "assigned" once the constructor has stored the value

vars == <<impl, duration, now, calls, last, text, lastIndex, durations, iterations, result, pc>>

engineVars == <<impl, duration, now, calls, last>>

scanVars == <<text, lastIndex, durations, iterations, result, pc>>

(***************************************************************************)
(* Bounds of the model.                                                    *)
(***************************************************************************)
\* longest string of the exhaustive input set
MaxLen == 4

\* method calls made on one object
MaxCalls == 1

\* clock ticks after the start of a behaviour
MaxTicks == 1

(***************************************************************************)
(* Characters and the regular expression /([-+\d.]+)([a-zµμ]+)/g *)
(***************************************************************************)
Digits == <<"0", "1", "2", "3", "4", "5", "6", "7", "8", "9">>

DigitChars == {Digits[i] : i \in 1..Len(Digits)}

\* the class [-+\d.]
NumChars == DigitChars \cup {"-", "+", "."}

\* the class [a-zµμ]
UnitChars ==
    {"a", "b", "c", "d", "e", "f", "g", "h", "i", "j", "k", "l", "m",
     "n", "o", "p", "q", "r", "s", "t", "u", "v", "w", "x", "y", "z",
     "U+00B5", "U+03BC"}

Min(S) == CHOOSE n \in S : \A k \in S : n <= k

\* s.substring(from, to)
Substring(s, from, to) == [k \in 1..(to - from) |-> s[from + k]]

\* end (exclusive) of the longest run of characters of Class at index i
RunEnd(s, i, Class) ==
    Min({j \in i..Len(s) : j = Len(s) \/ s[j + 1] \notin Class})

\* A match can start at index i: the classes are disjoint, so the greedy
\* first group is the whole run of number characters from i, and it must be
\* followed by at least one unit character.
MatchAt(s, i) ==
    /\ i < Len(s)
    /\ s[i + 1] \in NumChars
    /\ LET e == RunEnd(s, i, NumChars)
       IN  e < Len(s) /\ s[e + 1] \in UnitChars

NoMatch == [found |-> FALSE, index |-> 0, end |-> 0, num |-> <<>>, unit |-> <<>>]

\* the match that starts at index i and whose first group ends at index e
Groups(s, i, e, f) ==
    [found |-> TRUE, index |-> i, end |-> f,
     num |-> Substring(s, i, e), unit |-> Substring(s, e, f)]

MatchFrom(s, i, e) == Groups(s, i, e, RunEnd(s, e, UnitChars))

Leftmost(s, starts) ==
    IF starts = {} THEN NoMatch
    ELSE MatchFrom(s, Min(starts), RunEnd(s, Min(starts), NumChars))

\* unitRegex.exec(s) with unitRegex.lastIndex = from: the leftmost match at or
\* after from, its two groups, and the lastIndex it leaves (end).
Exec(s, from) == Leftmost(s, {i \in from..(Len(s) - 1) : MatchAt(s, i)})

\* parseString without the guard of lines 267-269
WithoutGuard(s) == TRUE

\* unitRegex.test(s) with lastIndex = 0
Test(s) == Exec(s, 0).found

(***************************************************************************)
(* parseInt                                                                *)
(***************************************************************************)
DigitVal(c) == (CHOOSE i \in 1..Len(Digits) : Digits[i] = c) - 1

RECURSIVE DigitsVal(_)
DigitsVal(ds) ==
    IF ds = <<>> THEN 0
    ELSE 10 * DigitsVal(SubSeq(ds, 1, Len(ds) - 1)) + DigitVal(ds[Len(ds)])

NaN == [nan |-> TRUE, val |-> 0]

\* the longest prefix of digits, of length e, as a number
Prefix(body, e) ==
    IF e = 0 THEN NaN ELSE [nan |-> FALSE, val |-> DigitsVal(Substring(body, 0, e))]

Unsigned(body) == Prefix(body, RunEnd(body, 0, DigitChars))

Negative(v) == [nan |-> v.nan, val |-> 0 - v.val]

\* parseInt(t), t made of number characters: an optional sign, then the
\* longest prefix of digits; what follows is ignored; NaN without a digit.
ParseInt(t) ==
    IF t = <<>> THEN NaN
    ELSE IF t[1] = "-" THEN Negative(Unsigned(Substring(t, 1, Len(t))))
    ELSE IF t[1] = "+" THEN Unsigned(Substring(t, 1, Len(t)))
    ELSE Unsigned(t)

(***************************************************************************)
(* unitMap and the ten fields of a duration                                *)
(***************************************************************************)
UnitNames ==
    {"years", "months", "weeks", "days", "hours", "minutes", "seconds",
     "milliseconds", "microseconds", "nanoseconds"}

unitMap ==
    (<<"n", "s">> :> "nanoseconds") @@
    (<<"u", "s">> :> "microseconds") @@
    (<<"U+00B5", "s">> :> "microseconds") @@
    (<<"U+03BC", "s">> :> "microseconds") @@
    (<<"m", "s">> :> "milliseconds") @@
    (<<"s">> :> "seconds") @@
    (<<"m">> :> "minutes") @@
    (<<"h">> :> "hours") @@
    (<<"d">> :> "days") @@
    (<<"w">> :> "weeks") @@
    (<<"m", "o">> :> "months") @@
    (<<"y">> :> "years")

\* unitMap is an object literal: a key it does not own is looked up in
\* Object.prototype.  Of that object's properties only "constructor" is made
\* of unit characters; its value is the function Object, which is truthy and,
\* used as a property key, the string below.
ObjectPrototype ==
    (<<"c", "o", "n", "s", "t", "r", "u", "c", "t", "o", "r">>
        :> "function Object() { [native code] }")

undefined == "undefined"

\* unitMap[key]
Get(key) ==
    IF key \in DOMAIN unitMap THEN unitMap[key]
    ELSE IF key \in DOMAIN ObjectPrototype THEN ObjectPrototype[key]
    ELSE undefined

Zero == [u \in UnitNames |-> 0]

Sign(n) == IF n > 0 THEN 1 ELSE IF n < 0 THEN 0 - 1 ELSE 0

Abs(n) == IF n < 0 THEN 0 - n ELSE n

NoError == [kind |-> "", arg |-> <<>>]

Thrown(kind, arg) == [kind |-> kind, arg |-> arg]

FromGiven(obj, given) ==
    IF given = {}
    THEN [err |-> Thrown("TypeError", <<>>), value |-> Zero]
    ELSE IF \E u, v \in given : Sign(obj[u]) * Sign(obj[v]) < 0
    THEN [err |-> Thrown("RangeError", <<>>), value |-> Zero]
    ELSE [err |-> NoError,
          value |-> [u \in UnitNames |-> IF u \in given THEN obj[u] ELSE 0]]

\* Temporal.Duration.from(obj), obj a property bag with integer values: a
\* TypeError when obj has none of the ten fields, a RangeError when two
\* fields differ in sign; a field obj lacks is 0.
DurationFrom(obj) == FromGiven(obj, DOMAIN obj \cap UnitNames)

(***************************************************************************)
(* parseString                                                             *)
(***************************************************************************)
\* the object literal {}
EmptyObject == [k \in {} |-> 0]

\* obj[key] = value
Put(obj, key, value) ==
    [k \in DOMAIN obj \cup {key} |-> IF k = key THEN value ELSE obj[k]]

\* the regular expression without its g flag: exec leaves lastIndex at 0
WithoutGlobalFlag(m) == 0

\* the lastIndex the loop continues from after match m
Advance(m) == IF m.index = m.end THEN m.end + 1 ELSE m.end

\* lines 283-291, value the number parsed and name the entry of unitMap
Body(s, unit, obj, value, name) ==
    IF value.nan \/ unit = <<>>
    THEN [err |-> Thrown("invalid duration : ", s), durations |-> obj]
    ELSE IF name = undefined
    THEN [err |-> Thrown("invalid unit : ", unit), durations |-> obj]
    ELSE [err |-> NoError, durations |-> Put(obj, name, value.val)]

\* One iteration of the while loop on match m: the error it throws, or the
\* object with the field of the match written.
LoopBody(s, m, obj) == Body(s, m.unit, obj, ParseInt(m.num), Get(m.unit))

Returned(obj, d) == [err |-> d.err, durations |-> obj, value |-> d.value]

\* the return statement: Temporal.Duration.from(durations)
Return(obj) == Returned(obj, DurationFrom(obj))

RECURSIVE ScanFrom(_, _, _)
\* the loop after the body has run on match m with outcome r
Continue(s, m, r) ==
    IF r.err /= NoError
    THEN [err |-> r.err, durations |-> r.durations, value |-> Zero]
    ELSE ScanFrom(s, Advance(m), r.durations)

\* the loop on the outcome m of exec
Iterate(s, m, obj) ==
    IF ~m.found THEN Return(obj) ELSE Continue(s, m, LoopBody(s, m, obj))

\* the while loop of lines 273-293 from lastIndex = from, and the return
ScanFrom(s, from, obj) == Iterate(s, Exec(s, from), obj)

\* parseString(s): err is the error thrown (NoError: none), durations the
\* object literal as the call left it, value the Temporal.Duration returned.
parseString(s) ==
    IF ~Test(s)
    THEN [err |-> Thrown("invalid duration: ", s), durations |-> EmptyObject,
          value |-> Zero]
    ELSE ScanFrom(s, 0, EmptyObject)

(***************************************************************************)
(* The calendar provider: Temporal, on the ISO calendar.  A reference      *)
(* (relativeTo) is a plain date; a duration is applied to it by adding     *)
(* years and months (the day constrained to the month), then weeks and     *)
(* days, then the time fields; the result of add, subtract and round is    *)
(* the difference between the reference and that end point, counted from   *)
(* the largest unit asked for.  Days are 24 hours long.                    *)
(***************************************************************************)
Date(y, m, d) == [year |-> y, month |-> m, day |-> d]

IsLeap(y) == (y % 4 = 0 /\ y % 100 /= 0) \/ y % 400 = 0

DaysInMonth(y, m) ==
    IF m = 2 THEN (IF IsLeap(y) THEN 29 ELSE 28)
    ELSE IF m \in {4, 6, 9, 11} THEN 30 ELSE 31

\* days from 1970-01-01 to day d of the month mp months after March of the
\* year y that starts in March
DaysFromCivil(y, mp, d) ==
    (y \div 400) * 146097
        + (y % 400) * 365 + (y % 400) \div 4 - (y % 400) \div 100
        + (153 * mp + 2) \div 5 + d - 1 - 719468

\* days from 1970-01-01 to the date
EpochDay(date) ==
    DaysFromCivil(IF date.month <= 2 THEN date.year - 1 ELSE date.year,
                  IF date.month > 2 THEN date.month - 3 ELSE date.month + 9,
                  date.day)

CivilOfMonth(y, doy, mp) ==
    Date(IF mp < 10 THEN y ELSE y + 1,
         IF mp < 10 THEN mp + 3 ELSE mp - 9,
         doy - (153 * mp + 2) \div 5 + 1)

CivilOfDay(y, doy) == CivilOfMonth(y, doy, (5 * doy + 2) \div 153)

CivilOfYear(era, doe, yoe) ==
    CivilOfDay(yoe + era * 400, doe - (365 * yoe + yoe \div 4 - yoe \div 100))

CivilOfEra(era, doe) ==
    CivilOfYear(era, doe,
                (doe - doe \div 1460 + doe \div 36524 - doe \div 146096) \div 365)

\* the date that many days from 1970-01-01
DateOfEpochDay(n) ==
    CivilOfEra((n + 719468) \div 146097, (n + 719468) % 146097)

\* Temporal's plain dates: -271821-04-19 to +275760-09-13
InRange(epochDay) == 0 - (10 ^ 8) - 1 <= epochDay /\ epochDay <= 10 ^ 8

\* the day constrained to the month
Constrain(y, m, d) ==
    Date(y, m, IF d > DaysInMonth(y, m) THEN DaysInMonth(y, m) ELSE d)

\* the date years and months later, its day constrained to the month
AddYM(date, years, months) ==
    Constrain((date.year * 12 + (date.month - 1) + years * 12 + months) \div 12,
              ((date.year * 12 + (date.month - 1) + years * 12 + months) % 12) + 1,
              date.day)

\* epoch day of the date the date fields of d after date
AddDate(date, d) ==
    EpochDay(AddYM(date, d.years, d.months)) + 7 * d.weeks + d.days

\* The time fields of d as days, seconds of the day and nanoseconds of the
\* second, carried upwards field by field.
TimePart(d) ==
    LET us == d.microseconds + d.nanoseconds \div 1000
        ms == d.milliseconds + us \div 1000
        s  == d.seconds + ms \div 1000
        mi == d.minutes + s \div 60
        h  == d.hours + mi \div 60
    IN  [day  |-> h \div 24,
         sec  |-> (h % 24) * 3600 + (mi % 60) * 60 + (s % 60),
         nano |-> (ms % 1000) * 1000000 + (us % 1000) * 1000
                      + (d.nanoseconds % 1000)]

EndAt(day, t) == [day |-> day + t.day, sec |-> t.sec, nano |-> t.nano]

\* the end point of d applied to midnight of the date
EndPoint(date, d) == EndAt(AddDate(date, d), TimePart(d))

UnitOrder ==
    <<"years", "months", "weeks", "days", "hours", "minutes", "seconds",
      "milliseconds", "microseconds", "nanoseconds">>

Rank(u) == CHOOSE i \in 1..Len(UnitOrder) : UnitOrder[i] = u

\* the largest non-zero unit of d (nanoseconds when d is zero)
LargestOf(d) ==
    LET nz == {i \in 1..Len(UnitOrder) : d[UnitOrder[i]] /= 0}
    IN  IF nz = {} THEN "nanoseconds" ELSE UnitOrder[Min(nz)]

LargerUnit(u, v) == IF Rank(u) <= Rank(v) THEN u ELSE v

Negated(d) == [u \in UnitNames |-> 0 - d[u]]

\* whole months from d1 to d2, the day of d1 unconstrained
WholeMonths(d1, d2) ==
    IF EpochDay(d2) >= EpochDay(d1)
    THEN (d2.year * 12 + d2.month) - (d1.year * 12 + d1.month)
             - (IF d1.day > d2.day THEN 1 ELSE 0)
    ELSE 0 - ((d1.year * 12 + d1.month) - (d2.year * 12 + d2.month)
                  - (IF d1.day < d2.day THEN 1 ELSE 0))

\* m months and rest days as years, months, weeks and days
DateFields(largest, m, rest) ==
    LET y == IF largest = "years" THEN Sign(m) * (Abs(m) \div 12) ELSE 0
        w == IF largest = "weeks" THEN Sign(rest) * (Abs(rest) \div 7) ELSE 0
    IN  [years |-> y, months |-> m - 12 * y, weeks |-> w, days |-> rest - 7 * w]

MonthsThenDays(d1, d2, largest, m) ==
    DateFields(largest, m, EpochDay(d2) - EpochDay(AddYM(d1, 0, m)))

\* The calendar difference from date d1 to date d2 in years, months, weeks
\* and days, counted from the unit largest: whole months are counted with
\* the day of d1 unconstrained, the rest in days from the constrained date.
DateUntil(d1, d2, largest) ==
    MonthsThenDays(d1, d2, largest,
                   IF largest \in {"years", "months"} THEN WholeMonths(d1, d2) ELSE 0)

\* D days, sec seconds and nano nanoseconds in the time fields from the
\* unit of rank r down (5: hours, 6: minutes, ... 10: nanoseconds), with
\* sign sgn
TimeFields(sgn, r, D, sec, nano) ==
    [hours |-> sgn * (IF r <= 5 THEN D * 24 + sec \div 3600 ELSE 0),
     minutes |-> sgn * (IF r <= 5 THEN (sec % 3600) \div 60
                        ELSE IF r = 6 THEN D * 1440 + sec \div 60 ELSE 0),
     seconds |-> sgn * (IF r <= 6 THEN sec % 60
                        ELSE IF r = 7 THEN D * 86400 + sec ELSE 0),
     milliseconds |-> sgn * (IF r <= 7 THEN nano \div 1000000
                             ELSE IF r = 8
                             THEN (D * 86400 + sec) * 1000 + nano \div 1000000
                             ELSE 0),
     microseconds |-> sgn * (IF r <= 8 THEN (nano \div 1000) % 1000
                             ELSE IF r = 9
                             THEN (D * 86400 + sec) * 1000000 + nano \div 1000
                             ELSE 0),
     nanoseconds |-> sgn * (IF r <= 9 THEN nano % 1000
                            ELSE (D * 86400 + sec) * 1000000000 + nano)]

DateAndTime(dd, t) ==
    [years |-> dd.years, months |-> dd.months, weeks |-> dd.weeks,
     days |-> dd.days, hours |-> t.hours, minutes |-> t.minutes,
     seconds |-> t.seconds, milliseconds |-> t.milliseconds,
     microseconds |-> t.microseconds, nanoseconds |-> t.nanoseconds]

\* the difference of sign sgn from the date (epoch day e1) to the day day2
\* and, further from the date, sec seconds and nano nanoseconds
Difference(sgn, date, e1, day2, sec, nano, largest) ==
    IF Rank(largest) <= Rank("days")
    THEN DateAndTime(DateUntil(date, DateOfEpochDay(day2), largest),
                     TimeFields(sgn, Rank("hours"), 0, sec, nano))
    ELSE DateAndTime([years |-> 0, months |-> 0, weeks |-> 0, days |-> 0],
                     TimeFields(sgn, Rank(largest), Abs(day2 - e1), sec, nano))

\* an end point before the reference: the time is counted back from the
\* following midnight
UntilFrom(date, e1, end, largest) ==
    IF end.day >= e1
    THEN Difference(1, date, e1, end.day, end.sec, end.nano, largest)
    ELSE IF end.sec = 0 /\ end.nano = 0
    THEN Difference(0 - 1, date, e1, end.day, 0, 0, largest)
    ELSE Difference(0 - 1, date, e1, end.day + 1,
                    86400 - end.sec - (IF end.nano = 0 THEN 0 ELSE 1),
                    IF end.nano = 0 THEN 0 ELSE 1000000000 - end.nano,
                    largest)

\* The difference from midnight of date to the end point, counted from the
\* unit largest.  All fields get the sign of the difference.
Until(date, end, largest) == UntilFrom(date, EpochDay(date), end, largest)

RoundTo(d, date, end) ==
    IF ~InRange(end.day)
    THEN [err |-> Thrown("RangeError", <<>>), value |-> d]
    ELSE [err |-> NoError, value |-> Until(date, end, "years")]

\* duration.round({ largestUnit: 'years', relativeTo: date })
Round(d, date) == RoundTo(d, date, EndPoint(date, d))

\* the time fields of d1 and d2 added field by field
TimeSum(d1, d2) ==
    [u \in UnitNames |-> IF Rank(u) > Rank("days") THEN d1[u] + d2[u] ELSE 0]

PlusEnd(d1, d2, date, end) ==
    IF ~InRange(end.day)
    THEN [err |-> Thrown("RangeError", <<>>), value |-> d1]
    ELSE [err |-> NoError,
          value |-> Until(date, end, LargerUnit(LargestOf(d1), LargestOf(d2)))]

PlusMid(d1, d2, date, mid) ==
    IF ~InRange(mid)
    THEN [err |-> Thrown("RangeError", <<>>), value |-> d1]
    ELSE PlusEnd(d1, d2, date,
                 EndAt(AddDate(DateOfEpochDay(mid), d2), TimePart(TimeSum(d1, d2))))

\* d1.add(d2, { relativeTo: date }): the date fields of d1, then those of d2,
\* then the sum of their time fields applied to the date, and the difference
\* counted from the larger of their largest units
Plus(d1, d2, date) == PlusMid(d1, d2, date, AddDate(date, d1))

\* d1.subtract(d2, { relativeTo: date })
Minus(d1, d2, date) == Plus(d1, Negated(d2), date)

TotalTo(date, end) ==
    IF ~InRange(end.day)
    THEN [err |-> Thrown("RangeError", <<>>),
          value |-> [day |-> 0, sec |-> 0, nano |-> 0]]
    ELSE [err |-> NoError,
          value |-> [day |-> end.day - EpochDay(date), sec |-> end.sec,
                     nano |-> end.nano]]

\* duration.total({ unit, relativeTo: date }) as whole days, seconds of the
\* day and nanoseconds of the second from the reference to the end point
Total(d, date) == TotalTo(date, EndPoint(date, d))

(***************************************************************************)
(* Inputs                                                                  *)
(***************************************************************************)
Alphabet == {"1", "5", "-", ".", "h", "m", "o", "x"}

Strings(n) == UNION {[1..k -> Alphabet] : k \in 0..n}

\* longer strings: every unit of the table, the prototype key, the examples
\* of the documentation
Samples ==
    {<<"9", "0", "m">>, <<"3", "6", "h">>, <<"1", "h", "3", "0", "m">>,
     <<"1", "y", "2", "m", "o", "3", "d", "4", "h">>,
     <<"2", "w">>, <<"4", "5", "d">>, <<"1", "3", "m", "o">>,
     <<"1", "5", "0", "0", "m", "s">>, <<"5", "0", "0", "m", "s">>,
     <<"7", "u", "s">>, <<"7", "U+00B5", "s">>, <<"7", "U+03BC", "s">>,
     <<"9", "n", "s">>, <<"6", "1", "s">>, <<"+", "2", "y">>,
     <<"-", "1", "h", "3", "0", "m">>, <<"-", "9", "0", "m">>,
     <<"1", ".", "5", "h">>, <<"1", ".", ".", "5", "h">>,
     <<"1", ".", "2", ".", "3", "h">>, <<"1", "-", "2", "h">>,
     <<"5", "x", "z">>, <<"a", "b", "c">>, <<"5">>, <<"1", "h", " ", "5", "m">>,
     <<"5", "c", "o", "n", "s", "t", "r", "u", "c", "t", "o", "r">>,
     <<"1", "h", "5", "c", "o", "n", "s", "t", "r", "u", "c", "t", "o", "r">>}

Inputs == Strings(MaxLen) \cup Samples

\* magnitude records (TemporalDuration): the example of the documentation,
\* fields of both signs, no field at all, and plain ones
Records ==
    {[milliseconds |-> 12389348], [hours |-> 1, minutes |-> 0 - 1],
     EmptyObject, [years |-> 1, days |-> 1, seconds |-> 2], [months |-> 13]}

\* an argument of type string | TemporalDuration
Text(s) == [isString |-> TRUE, str |-> s, bag |-> EmptyObject]

Magnitudes(b) == [isString |-> FALSE, str |-> <<>>, bag |-> b]

\* what the constructors are given
Starts ==
    {<<"9", "0", "m">>, <<"3", "6", "h">>, <<"5", "0", "0", "m", "s">>,
     <<"-", "9", "0", "m">>, <<"5", "x", "z">>}

Sources == {Text(s) : s \in Starts} \cup {Magnitudes(b) : b \in Records}

\* what add and sub are given
Deltas ==
    {Text(s) : s \in
        {<<"9", "0", "m">>, <<"1", "3", "m", "o">>, <<"5", "x", "z">>,
         <<"9", "9", "9", "9", "9", "2", "4", "0", "d">>}}
    \cup {Magnitudes(b) : b \in
             {[milliseconds |-> 12389348], [hours |-> 1, minutes |-> 0 - 1]}}

(***************************************************************************)
(* The clock and the options                                               *)
(***************************************************************************)
Instant(day, sec) == [day |-> day, sec |-> sec]

\* The clock is read at these instants: from 1972-01-31T22:00:00Z, every
\* eight hours.
Ticks ==
    {Instant(EpochDay(Date(1972, 1, 31)) + (22 + 8 * k) \div 24,
             ((22 + 8 * k) % 24) * 3600) : k \in 0..MaxTicks}

NotBefore(t, u) == u.day > t.day \/ (u.day = t.day /\ u.sec >= t.sec)

\* Temporal.Now.plainDateISO(), the clock showing t
PlainDateISO(t) == DateOfEpochDay(t.day)

NoOptions == [given |-> FALSE, date |-> Instant(0, 0), timeZone |-> undefined]

RelativeTo(date, timeZone) == [given |-> TRUE, date |-> date, timeZone |-> timeZone]

\* offsets of the zones of the model; any other identifier is rejected
ZoneOffset == ("UTC" :> 0) @@ ("Asia/Tokyo" :> 9 * 3600)

Options ==
    {NoOptions}
    \cup {RelativeTo(Instant(EpochDay(Date(1972, 1, 31)), 20 * 3600), z) :
             z \in {undefined, "Asia/Tokyo", "Mars/Phobos"}}

NoDate == Date(0, 0, 0)

\* options?.relativeTo?.date.toTemporalInstant().toString({ timeZone:
\* options.relativeTo.timeZone ?? 'UTC' }): undefined without relativeTo, a
\* RangeError for an unknown zone, else the date and time in the zone, of
\* which Temporal, the string naming no zone in brackets, reads the date.
Relative(options) ==
    LET zone == IF options.timeZone = undefined THEN "UTC" ELSE options.timeZone
    IN  IF ~options.given
        THEN [err |-> NoError, given |-> FALSE, date |-> NoDate]
        ELSE IF zone \notin DOMAIN ZoneOffset
        THEN [err |-> Thrown("RangeError", <<>>), given |-> FALSE, date |-> NoDate]
        ELSE [err |-> NoError, given |-> TRUE,
              date |-> DateOfEpochDay(options.date.day
                           + (options.date.sec + ZoneOffset[zone]) \div 86400)]

\* relative ?? Temporal.Now.plainDateISO(), the clock showing t
Reference(relative, t) == IF relative.given THEN relative.date ELSE PlainDateISO(t)

(***************************************************************************)
(* The Duration object                                                     *)
(***************************************************************************)
NoStamp == [day |-> 0, sec |-> 0, nano |-> 0, style |-> ""]

NoCall ==
    [op |-> "", isString |-> FALSE, arg |-> <<>>, bag |-> EmptyObject,
     anchored |-> FALSE, err |-> NoError, raw |-> Zero, before |-> Zero,
     ref |-> NoDate, roundRef |-> NoDate, clock |-> Instant(0, 0),
     str |-> <<>>, type |-> undefined, stamp |-> NoStamp]

Parsed(p) == [err |-> p.err, value |-> p.value]

\* the Temporal.Duration of an argument: a string is parsed, a record is
\* converted by Temporal
Operand(source) ==
    IF source.isString THEN Parsed(parseString(source.str))
    ELSE DurationFrom(source.bag)

CallOf(op, source, options) ==
    [NoCall EXCEPT !.op = op,
                   !.isString = source.isString,
                   !.arg = source.str,
                   !.bag = source.bag,
                   !.anchored = options.given,
                   !.before = duration]

\* the constructor without the round of line 119
NotRebalanced(raw, ref, rounded) ==
    [err |-> NoError, value |-> raw, raw |-> raw, ref |-> ref]

\* line 119: the round, and the assignment when it returns
Rebalanced(raw, ref, rounded) ==
    [err |-> rounded.err,
     value |-> IF rounded.err = NoError THEN rounded.value ELSE Zero,
     raw |-> raw, ref |-> ref]

\* lines 106-119, from the Temporal.Duration of the argument and relative
ConstructedFrom(from, relative, t) ==
    IF from.err /= NoError
    THEN [err |-> from.err, value |-> Zero, raw |-> Zero, ref |-> NoDate]
    ELSE IF relative.err /= NoError
    THEN [err |-> relative.err, value |-> Zero, raw |-> from.value, ref |-> NoDate]
    ELSE Rebalanced(from.value, Reference(relative, t),
                    Round(from.value, Reference(relative, t)))

\* The constructor of src/unnamed/part_001 (lines 104-121) with the clock
\* showing t: the error thrown, or the value stored.
Constructed(source, options, t) ==
    ConstructedFrom(Operand(source), Relative(options), t)

\* new Duration(source, options), src/unnamed/part_001
New ==
    \E source \in Sources, options \in Options :
        /\ impl = "none"
        /\ last.op = ""
        /\ \E c \in {Constructed(source, options, now)} :
               /\ impl' = IF c.err = NoError THEN "part_001" ELSE "none"
               /\ duration' = c.value
               /\ last' = [CallOf("new", source, options) EXCEPT
                              !.err = c.err, !.raw = c.raw, !.roundRef = c.ref]
        /\ UNCHANGED <<now, calls, scanVars>>

\* new Duration(source), src/duration.ts lines 103-107
NewTs ==
    \E source \in {Text(s) : s \in Starts} :
        /\ impl = "none"
        /\ last.op = ""
        /\ \E p \in {parseString(source.str)} :
               /\ impl' = IF p.err = NoError THEN "duration.ts" ELSE "none"
               /\ duration' = p.value
               /\ last' = [CallOf("new", source, NoOptions) EXCEPT
                              !.err = p.err, !.raw = p.value]
        /\ UNCHANGED <<now, calls, scanVars>>

Arith(op, d1, d2, date) ==
    IF op = "add" THEN Plus(d1, d2, date) ELSE Minus(d1, d2, date)

\* lines 148 and 179: the round of the sum this.duration was assigned
Renormalized(sum, raw, ref, roundRef, rounded, reads) ==
    [err |-> rounded.err,
     value |-> IF rounded.err = NoError THEN rounded.value ELSE sum,
     raw |-> raw, ref |-> ref, roundRef |-> roundRef, reads |-> reads]

\* lines 139-148 and 170-179, sum the outcome of the add or subtract
ChangedSum(d, raw, ref, roundRef, sum, reads) ==
    IF sum.err /= NoError
    THEN [err |-> sum.err, value |-> d, raw |-> raw, ref |-> ref,
          roundRef |-> NoDate, reads |-> reads \div 2]
    ELSE Renormalized(sum.value, raw, ref, roundRef,
                      Round(sum.value, roundRef), reads)

ChangedFrom(op, d, relative, operand, t1, t2) ==
    IF relative.err /= NoError
    THEN [err |-> relative.err, value |-> d, raw |-> Zero, ref |-> NoDate,
          roundRef |-> NoDate, reads |-> 0]
    ELSE IF operand.err /= NoError
    THEN [err |-> operand.err, value |-> d, raw |-> Zero, ref |-> NoDate,
          roundRef |-> NoDate, reads |-> 0]
    ELSE ChangedSum(d, operand.value, Reference(relative, t1),
                    Reference(relative, t2),
                    Arith(op, d, operand.value, Reference(relative, t1)),
                    IF relative.given THEN 0 ELSE 2)

\* add and sub of src/unnamed/part_001 (lines 130-152, 161-183) on the value
\* d, the clock showing t1 at the add or subtract and t2 at the round: the
\* error thrown, the value this.duration is left with, and the clock reads.
Changed(op, d, delta, options, t1, t2) ==
    ChangedFrom(op, d, Relative(options), Operand(delta), t1, t2)

ChangedTsSum(d, raw, ref, sum) ==
    IF sum.err /= NoError
    THEN [err |-> sum.err, value |-> d, raw |-> raw, ref |-> ref]
    ELSE [err |-> NoError, value |-> sum.value, raw |-> raw, ref |-> ref]

\* In src/duration.ts a string is parsed before relative is computed (lines
\* 120-122); a record is converted by Temporal's add, after it (lines
\* 129-131).
ChangedTsFrom(op, d, relative, operand, t1, parsedFirst) ==
    IF operand.err /= NoError /\ (parsedFirst \/ relative.err = NoError)
    THEN [err |-> operand.err, value |-> d, raw |-> Zero, ref |-> NoDate]
    ELSE IF relative.err /= NoError
    THEN [err |-> relative.err, value |-> d, raw |-> Zero, ref |-> NoDate]
    ELSE ChangedTsSum(d, operand.value, Reference(relative, t1),
                      Arith(op, d, operand.value, Reference(relative, t1)))

\* add and sub of src/duration.ts (lines 116-137, 146-167): no round
ChangedTs(op, d, delta, options, t1) ==
    ChangedTsFrom(op, d, Relative(options), Operand(delta), t1, delta.isString)

\* A call of add or sub of src/unnamed/part_001.  The clock is read when
\* no relativeTo is given: once for the add or subtract, once more for the
\* round, and it may have advanced in between.
Change(op) ==
    \E delta \in Deltas, options \in Options, t2 \in Ticks :
        /\ impl = "part_001"
        /\ calls < MaxCalls
        /\ NotBefore(now, t2)
        /\ \E c \in {Changed(op, duration, delta, options, now, t2)} :
               /\ c.reads < 2 => t2 = now
               /\ duration' = c.value
               /\ last' = [CallOf(op, delta, options) EXCEPT
                              !.err = c.err, !.raw = c.raw, !.ref = c.ref,
                              !.roundRef = c.roundRef]
        /\ now' = t2
        /\ calls' = calls + 1
        /\ UNCHANGED <<impl, scanVars>>

\* duration.add(delta, options), src/unnamed/part_001 lines 130-152
Add == Change("add")

\* duration.sub(delta, options), src/unnamed/part_001 lines 161-183
Sub == Change("sub")

ChangeTs(op) ==
    \E delta \in Deltas, options \in Options :
        /\ impl = "duration.ts"
        /\ calls < MaxCalls
        /\ \E c \in {ChangedTs(op, duration, delta, options, now)} :
               /\ duration' = c.value
               /\ last' = [CallOf(op, delta, options) EXCEPT
                              !.err = c.err, !.raw = c.raw, !.ref = c.ref]
        /\ calls' = calls + 1
        /\ UNCHANGED <<impl, now, scanVars>>

\* duration.add(delta, options), src/duration.ts lines 116-137
AddTs == ChangeTs("add")

\* duration.sub(delta, options), src/duration.ts lines 146-167
SubTs == ChangeTs("sub")

\* `${n} ${word} `
Piece(n, word) == [n |-> n, word |-> word]

\* the ternary of line 220: both branches are 'years'
YearsWord(n) == IF n > 1 THEN "years" ELSE "years"

Plural(n, one, many) == IF n > 1 THEN many ELSE one

\* toString() of the value d, as the sequence of the pieces appended to str
toString(d) ==
    (IF d.years > 0 THEN <<Piece(d.years, YearsWord(d.years))>> ELSE <<>>)
    \o (IF d.days > 0 THEN <<Piece(d.days, Plural(d.days, "day", "days"))>> ELSE <<>>)
    \o (IF d.hours > 0 THEN <<Piece(d.hours, Plural(d.hours, "hour", "hours"))>> ELSE <<>>)
    \o (IF d.minutes > 0
        THEN <<Piece(d.minutes, Plural(d.minutes, "minute", "minutes"))>> ELSE <<>>)
    \o (IF d.seconds > 0
        THEN <<Piece(d.seconds, Plural(d.seconds, "second", "seconds"))>> ELSE <<>>)

\* duration.toString(), src/unnamed/part_001 lines 215-241
DurationToString ==
    /\ impl = "part_001"
    /\ calls < MaxCalls
    /\ last' = [CallOf("toString", Text(<<>>), NoOptions) EXCEPT
                   !.str = toString(duration)]
    /\ calls' = calls + 1
    /\ UNCHANGED <<impl, duration, now, scanVars>>

\* enum DiscordTimestamp
DiscordTimestamp == {"t", "T", "d", "D", "f", "F", "R"}

\* the types the calls are made with
Types == {undefined, "R"}

ShortDateTime == "f"

\* Temporal.Now.instant().epochSeconds + total seconds, the clock showing t:
\* the sum as whole days, seconds of the day and the fraction of a second in
\* nanoseconds
Stamp(t, total, style) ==
    [day   |-> t.day + total.day + (t.sec + total.sec) \div 86400,
     sec   |-> (t.sec + total.sec) % 86400,
     nano  |-> total.nano,
     style |-> style]

StampedTotal(relative, ref, total, style, t1) ==
    [err |-> total.err,
     stamp |-> IF total.err = NoError THEN Stamp(t1, total.value, style) ELSE NoStamp,
     ref |-> ref, reads |-> IF relative.given THEN 1 ELSE 2]

StampedFrom(d, style, relative, t1, t2) ==
    IF relative.err /= NoError
    THEN [err |-> relative.err, stamp |-> NoStamp, ref |-> NoDate, reads |-> 0]
    ELSE StampedTotal(relative, Reference(relative, t2),
                      Total(d, Reference(relative, t2)), style, t1)

\* toDiscordTimestamp(type, options) on the value d, the clock showing t1 at
\* Temporal.Now.instant() and t2 at Temporal.Now.plainDateISO()
Stamped(d, type, options, t1, t2) ==
    StampedFrom(d, IF type = undefined THEN ShortDateTime ELSE type,
                Relative(options), t1, t2)

\* duration.toDiscordTimestamp(type, options), src/unnamed/part_001 lines
\* 249-257
ToDiscordTimestamp ==
    \E type \in Types, options \in Options,
       t2 \in Ticks :
        /\ impl = "part_001"
        /\ calls < MaxCalls
        /\ NotBefore(now, t2)
        /\ \E r \in {Stamped(duration, type, options, now, t2)} :
               /\ r.reads < 2 => t2 = now
               /\ last' = [CallOf("toDiscordTimestamp", Text(<<>>), options) EXCEPT
                              !.err = r.err, !.type = type, !.stamp = r.stamp,
                              !.ref = r.ref,
                              !.clock = now]
        /\ now' = t2
        /\ calls' = calls + 1
        /\ UNCHANGED <<impl, duration, scanVars>>

\* duration.toDiscordTimestamp(type), src/duration.ts lines 187-193
ToDiscordTimestampTs ==
    \E type \in Types, t2 \in Ticks :
        /\ impl = "duration.ts"
        /\ calls < MaxCalls
        /\ NotBefore(now, t2)
        /\ \E r \in {Stamped(duration, type, NoOptions, now, t2)} :
               last' = [CallOf("toDiscordTimestamp", Text(<<>>), NoOptions) EXCEPT
                           !.err = r.err, !.type = type, !.stamp = r.stamp,
                              !.ref = r.ref,
                           !.clock = now]
        /\ now' = t2
        /\ calls' = calls + 1
        /\ UNCHANGED <<impl, duration, scanVars>>

\* time passes between two calls
Tick ==
    /\ \E t \in Ticks : NotBefore(now, t) /\ t /= now /\ now' = t
    /\ UNCHANGED <<impl, duration, calls, last, scanVars>>

(***************************************************************************)
(* The scan of parseString, one loop iteration at a time                   *)
(***************************************************************************)
NoResult == [err |-> NoError, value |-> Zero]

ScanInit ==
    /\ text \in Inputs
    /\ lastIndex = 0
    /\ durations = EmptyObject
    /\ iterations = 0
    /\ result = NoResult
    /\ pc = "test"

\* lines 261-271: the guard on unitRegex.test, which leaves lastIndex at the
\* end of the first match, and the reset of lastIndex
ScanTest ==
    /\ pc = "test"
    /\ IF Test(text)
       THEN /\ pc' = "loop"
            /\ result' = result
       ELSE /\ pc' = "thrown"
            /\ result' = [err |-> Thrown("invalid duration: ", text), value |-> Zero]
    /\ lastIndex' = 0
    /\ UNCHANGED <<text, durations, iterations, engineVars>>

\* lines 273-293: exec finds a match and the loop body runs
ScanIteration ==
    /\ pc = "loop"
    /\ LET m == Exec(text, lastIndex)
           r == LoopBody(text, m, durations)
       IN  /\ m.found
           /\ lastIndex' = Advance(m)
           /\ iterations' = iterations + 1
           /\ durations' = r.durations
           /\ pc' = IF r.err = NoError THEN "loop" ELSE "thrown"
           /\ result' = [err |-> r.err, value |-> Zero]
    /\ UNCHANGED <<text, engineVars>>

\* lines 273 and 295: exec finds no match and resets lastIndex; the value
\* returned is built from the object
ScanExit ==
    /\ pc = "loop"
    /\ ~Exec(text, lastIndex).found
    /\ lastIndex' = 0
    /\ LET r == Return(durations)
       IN  /\ pc' = IF r.err = NoError THEN "done" ELSE "thrown"
           /\ result' = [err |-> r.err, value |-> r.value]
    /\ UNCHANGED <<text, durations, iterations, engineVars>>

\* this.duration = this.parseString(duration), line 108 (src/duration.ts
\* line 105): the assignment is made when parseString returns
ScanAssign ==
    /\ pc = "done"
    /\ duration' = result.value
    /\ pc' = "assigned"
    /\ UNCHANGED <<impl, now, calls, last, text, lastIndex, durations,
                   iterations, result>>

ScanNext == ScanTest \/ ScanIteration \/ ScanExit \/ ScanAssign

(***************************************************************************)
(* Specifications                                                          *)
(***************************************************************************)
EngineInit ==
    /\ impl = "none"
    /\ duration = Zero
    /\ now = Instant(EpochDay(Date(1972, 1, 31)), 22 * 3600)
    /\ calls = 0
    /\ last = NoCall

\* no scan is under way
ScanIdle ==
    /\ text = <<>>
    /\ lastIndex = 0
    /\ durations = EmptyObject
    /\ iterations = 0
    /\ result = NoResult
    /\ pc = "idle"

Init == EngineInit /\ ScanIdle

Next ==
    \/ New
    \/ NewTs
    \/ Add
    \/ Sub
    \/ AddTs
    \/ SubTs
    \/ DurationToString
    \/ ToDiscordTimestamp
    \/ ToDiscordTimestampTs
    \/ Tick

\* the life of one Duration object
Spec == Init /\ [][Next]_vars

InitScan == EngineInit /\ ScanInit

\* one call of parseString by a constructor, its loop taken one iteration
\* at a time
SpecScan == InitScan /\ [][ScanNext]_vars

(***************************************************************************)
(* What the specification says of strings                                  *)
(***************************************************************************)
\* the call of parseString is over
ScanOver == pc \in {"done", "thrown", "assigned"}

\* a number character directly followed by a unit character
HasPair(s) ==
    \E i \in 1..(Len(s) - 1) : s[i] \in NumChars /\ s[i + 1] \in UnitChars

NoPair == [num |-> <<>>, unit |-> <<>>]

RECURSIVE PairsFrom(_, _)
\* s from index i on as <number><unit> pairs, a number being a run of
\* number characters and a unit a run of unit characters; NoPair where s is
\* not made of pairs
PairsFrom(s, i) ==
    IF i >= Len(s) THEN <<>>
    ELSE LET e == RunEnd(s, i, NumChars)
             f == RunEnd(s, e, UnitChars)
         IN  IF e = i \/ f = e THEN <<NoPair>>
             ELSE <<[num |-> Substring(s, i, e), unit |-> Substring(s, e, f)]>>
                      \o PairsFrom(s, f)

Pairs(s) == PairsFrom(s, 0)

\* s is a sequence of one or more pairs
MadeOfPairs(s) ==
    s /= <<>> /\ \A k \in 1..Len(Pairs(s)) : Pairs(s)[k] /= NoPair

\* the pairs of s, whatever stands between them
RECURSIVE PairsIn(_, _)
PairsIn(s, i) ==
    IF i >= Len(s) THEN <<>>
    ELSE IF s[i + 1] \notin NumChars THEN PairsIn(s, i + 1)
    ELSE LET e == RunEnd(s, i, NumChars)
             f == RunEnd(s, e, UnitChars)
         IN  IF f = e THEN PairsIn(s, e)
             ELSE <<[num |-> Substring(s, i, e), unit |-> Substring(s, e, f)]>>
                      \o PairsIn(s, f)

Unsign(n) == IF n /= <<>> /\ n[1] \in {"-", "+"} THEN Tail(n) ELSE n

\* an optional sign, digits, and at most one decimal point after the first
\* of them
WellFormedNumber(n) ==
    /\ \A k \in 1..Len(Unsign(n)) : Unsign(n)[k] \in DigitChars \cup {"."}
    /\ Unsign(n) /= <<>> /\ Unsign(n)[1] \in DigitChars
    /\ Cardinality({k \in 1..Len(Unsign(n)) : Unsign(n)[k] = "."}) <= 1

\* The integer v is the value the well-formed number n writes: n has no
\* non-zero digit after its point, and v is its signed integer part.
Writes(n, v) ==
    LET body  == Unsign(n)
        whole == RunEnd(body, 0, DigitChars)
    IN  /\ \A k \in (whole + 1)..Len(body) : body[k] \in {".", "0"}
        /\ v = (IF n[1] = "-" THEN 0 - 1 ELSE 1)
                   * DigitsVal(Substring(body, 0, whole))

\* the suffixes of the unit table
Suffixes == DOMAIN unitMap

\* the number of the last pair of s with a suffix of the field u
LastNumber(s, u) ==
    LET ps == Pairs(s)
        at == {k \in 1..Len(ps) : unitMap[ps[k].unit] = u}
    IN  ps[CHOOSE k \in at : \A j \in at : j <= k].num

WellFormed(s) ==
    /\ MadeOfPairs(s)
    /\ \A k \in 1..Len(Pairs(s)) :
           Pairs(s)[k].unit \in Suffixes /\ WellFormedNumber(Pairs(s)[k].num)

Mentioned(s) == {unitMap[Pairs(s)[k].unit] : k \in 1..Len(Pairs(s))}

\* C1: a string of one or more <number><unit> pairs, each number an
\* optional sign, digits and an optional decimal point, each unit a suffix
\* of the table, parses: the call returns, exactly the mentioned fields are
\* set, and each has the value its last occurrence writes, sign and
\* fraction included.
C1_WellFormedParses ==
    (ScanOver /\ WellFormed(text)) =>
        /\ pc /= "thrown"
        /\ DOMAIN durations = Mentioned(text)
        /\ \A u \in Mentioned(text) :
               /\ Writes(LastNumber(text, u), durations[u])
               /\ result.value[u] = durations[u]
        /\ \A u \in UnitNames \ Mentioned(text) : result.value[u] = 0

\* the suffixes of s that are not in the unit table
UnknownSuffixes(s) ==
    {PairsIn(s, 0)[k].unit : k \in 1..Len(PairsIn(s, 0))} \ Suffixes

\* every number of s is a well-formed whole number
WholeNumbers(s) ==
    \A k \in 1..Len(PairsIn(s, 0)) :
        /\ WellFormedNumber(PairsIn(s, 0)[k].num)
        /\ "." \notin {PairsIn(s, 0)[k].num[j] : j \in 1..Len(PairsIn(s, 0)[k].num)}

\* C2: when a number of the input is followed by a run of letters that is
\* not a key of the unit table, parseString throws "invalid unit : " naming
\* such a run; it throws nothing else and does not return.
C2_UnknownUnit ==
    (ScanOver /\ WholeNumbers(text) /\ UnknownSuffixes(text) /= {}) =>
        /\ pc = "thrown"
        /\ result.err.kind = "invalid unit : "
        /\ result.err.arg \in UnknownSuffixes(text)

\* a pair of s has a known suffix and a number that is not well formed
MalformedPair(s) ==
    \E k \in 1..Len(PairsIn(s, 0)) :
        /\ PairsIn(s, 0)[k].unit \in Suffixes
        /\ ~WellFormedNumber(PairsIn(s, 0)[k].num)

\* C3: when the number of a matched pair is not a well-formed number,
\* parseString throws "invalid duration : " with the text and returns no
\* record.  (Stated of the inputs all of whose suffixes are known, where
\* no other error is due.)
C3_MalformedNumber ==
    (ScanOver /\ UnknownSuffixes(text) = {} /\ MalformedPair(text)) =>
        /\ pc = "thrown"
        /\ result.err = Thrown("invalid duration : ", text)

\* C4: a string without any <number><unit> match makes parseString throw
\* "invalid duration: " with the text before the loop runs and before any
\* field is written, and the constructor stores no value.
C4_NoMatch ==
    (pc /= "test" /\ ~HasPair(text)) =>
        /\ pc = "thrown"
        /\ result.err = Thrown("invalid duration: ", text)
        /\ iterations = 0
        /\ durations = EmptyObject
        /\ duration = Zero
        /\ impl = "none"

\* a string of letters only has been rejected
C4_Witness ==
    /\ pc = "thrown"
    /\ text /= <<>>
    /\ ~HasPair(text)
    /\ \A k \in 1..Len(text) : text[k] \in UnitChars

\* C9: every iteration of the scan loop moves lastIndex strictly forward
\* and not past the end of the string, so that the iterations made never
\* outnumber the characters scanned: the loop ends within Len(text)
\* iterations.
C9_ScanAdvances ==
    [][ScanIteration =>
          /\ lastIndex' > lastIndex
          /\ lastIndex' <= Len(text)
          /\ iterations' <= lastIndex']_vars

\* the loop has run twice and goes on
C9_Witness == pc = "loop" /\ iterations >= 2

(***************************************************************************)
(* What the specification says of the Duration object                      *)
(***************************************************************************)
\* the fields of d are those of a value balanced from years down: one
\* sign, no weeks, and no field holding a whole unit of the next larger one
Balanced(d) ==
    /\ \A u, v \in UnitNames : Sign(d[u]) * Sign(d[v]) >= 0
    /\ d.weeks = 0
    /\ Abs(d.months) < 12 /\ Abs(d.days) < 31 /\ Abs(d.hours) < 24
    /\ Abs(d.minutes) < 60 /\ Abs(d.seconds) < 60
    /\ Abs(d.milliseconds) < 1000 /\ Abs(d.microseconds) < 1000
    /\ Abs(d.nanoseconds) < 1000

Constructs == last.op = "new" /\ last.err = NoError

\* C5, as stated: constructed without relativeTo, the object stores the raw
\* magnitudes, field by field.
C5_RawKept == (Constructs /\ ~last.anchored) => duration = last.raw

\* C5, amended: the constructor of src/unnamed/part_001 re-balances the
\* value from years down with or without relativeTo, relative to the anchor
\* date or else to the current date: the stored value is balanced and ends
\* where the raw value ends.  The constructor of src/duration.ts stores the
\* raw magnitudes.
C5_Rebalanced ==
    Constructs =>
        /\ impl = "duration.ts" => duration = last.raw
        /\ impl = "part_001" =>
               /\ Balanced(duration)
               /\ EndPoint(last.roundRef, duration) = EndPoint(last.roundRef, last.raw)

\* "90m", no relativeTo: 1 hour 30 minutes is stored
C5_Witness ==
    /\ Constructs /\ impl = "part_001" /\ ~last.anchored
    /\ last.raw = [Zero EXCEPT !.minutes = 90]
    /\ duration = [Zero EXCEPT !.hours = 1, !.minutes = 30]

\* C6: in a call of add or sub that goes as far as the round, the add or
\* subtract and the round are relative to the same date.
C6_OneReference ==
    (last.op \in {"add", "sub"} /\ last.roundRef /= NoDate) =>
        last.ref = last.roundRef

Singular ==
    [years |-> "year", days |-> "day", hours |-> "hour", minutes |-> "minute",
     seconds |-> "second"]

PluralOf ==
    [years |-> "years", days |-> "days", hours |-> "hours",
     minutes |-> "minutes", seconds |-> "seconds"]

Rendered(d, u) ==
    IF d[u] = 0 THEN <<>>
    ELSE <<Piece(d[u], IF d[u] = 1 THEN Singular[u] ELSE PluralOf[u])>>

\* C7: toString returns "<n> <name> " for the non-zero ones of years, days,
\* hours, minutes and seconds, in this order, the name singular when n is 1.
C7_Format ==
    last.op = "toString" =>
        last.str = Rendered(duration, "years") \o Rendered(duration, "days")
                       \o Rendered(duration, "hours")
                       \o Rendered(duration, "minutes")
                       \o Rendered(duration, "seconds")

\* C8: toDiscordTimestamp returns "<t:E:K>" with K the style, "f" when none
\* is given, and E a whole number of seconds, the clock's own for a zero
\* duration.
C8_WholeSeconds ==
    (last.op = "toDiscordTimestamp" /\ last.err = NoError) =>
        /\ last.stamp.style = (IF last.type = undefined THEN "f" ELSE last.type)
        /\ last.stamp.nano = 0
        /\ duration = Zero =>
               last.stamp.day = last.clock.day /\ last.stamp.sec = last.clock.sec

\* C10: a call of add or sub that throws leaves the stored value as it was
\* before the call.
C10_FailureKeepsValue ==
    (last.op \in {"add", "sub"} /\ last.err /= NoError) =>
        duration = last.before

====
